---------------------------- MODULE Spec2Model ----------------------------
(***************************************************************************)
(* Longwave-radiation model validation (Cleaned Station Data/models.py and *)
(* Cleaned Station Data/HIdata_error.py).                                  *)
(*                                                                         *)
(* Numbers are IEEE doubles in the program.  Here a double is a record     *)
(* [k, v]: k = "fin" with v the value in thousandths (fixed point, the     *)
(* products and quotients truncated toward zero), k = "inf" with v the     *)
(* sign, or k = "nan".  The special values follow numpy/pandas: x/0 is     *)
(* +-inf or nan and never raises, nan is contagious, every comparison      *)
(* with nan is false.                                                      *)
(***************************************************************************)
EXTENDS Integers, Sequences, FiniteSets, TLC

\* ------------------------------------------------------------------------
\* Floating point values
\* ------------------------------------------------------------------------
SCALE == 10 ^ 3

Fin(v) == [k |-> "fin", v |-> v]
F(n) == Fin(n * SCALE)
NaN == [k |-> "nan", v |-> 0]
PInf == [k |-> "inf", v |-> 1]
NInf == [k |-> "inf", v |-> -1]
Zero == Fin(0)
One == Fin(SCALE)

IsNaN(a) == a.k = "nan"
IsFin(a) == a.k = "fin"
IsInf(a) == a.k = "inf"

Abs(n) == IF n < 0 THEN -n ELSE n
Sgn(n) == IF n < 0 THEN -1 ELSE IF n > 0 THEN 1 ELSE 0
SignOf(a) == Sgn(a.v)

\* |a*b|/SCALE truncated, split so that no intermediate product overflows
MulI(a, b) ==
    LET x == IF Abs(a) >= Abs(b) THEN Abs(a) ELSE Abs(b)
        y == IF Abs(a) >= Abs(b) THEN Abs(b) ELSE Abs(a)
    IN  Sgn(a) * Sgn(b) * ((x \div SCALE) * y + ((x % SCALE) * y) \div SCALE)

\* |a/b|*SCALE truncated, by long division for the same reason
DivI(a, b) ==
    Sgn(a) * Sgn(b) * ((Abs(a) \div Abs(b)) * SCALE
                       + ((Abs(a) % Abs(b)) * SCALE) \div Abs(b))

FNeg(a) == IF IsNaN(a) THEN NaN ELSE [a EXCEPT !.v = -a.v]

FAdd(a, b) ==
    IF IsNaN(a) \/ IsNaN(b) THEN NaN
    ELSE IF IsInf(a) /\ IsInf(b) THEN (IF a.v = b.v THEN a ELSE NaN)
    ELSE IF IsInf(a) THEN a
    ELSE IF IsInf(b) THEN b
    ELSE Fin(a.v + b.v)

FSub(a, b) == FAdd(a, FNeg(b))

FMul(a, b) ==
    IF IsNaN(a) \/ IsNaN(b) THEN NaN
    ELSE IF IsInf(a) \/ IsInf(b)
         THEN (IF SignOf(a) * SignOf(b) = 0 THEN NaN
               ELSE [k |-> "inf", v |-> SignOf(a) * SignOf(b)])
    ELSE Fin(MulI(a.v, b.v))

\* numpy true division: a zero divisor gives +-inf or nan, never an exception
FDiv(a, b) ==
    IF IsNaN(a) \/ IsNaN(b) THEN NaN
    ELSE IF IsInf(a) THEN (IF IsInf(b) THEN NaN
                           ELSE [k |-> "inf", v |-> a.v * (IF b.v < 0 THEN -1 ELSE 1)])
    ELSE IF IsInf(b) THEN Zero
    ELSE IF b.v = 0 THEN (IF a.v = 0 THEN NaN ELSE [k |-> "inf", v |-> Sgn(a.v)])
    ELSE Fin(DivI(a.v, b.v))

\* the ordering of the doubles; nan is unordered
Rank(a) == IF IsInf(a) THEN a.v ELSE 0
FLt(a, b) ==
    /\ ~IsNaN(a) /\ ~IsNaN(b)
    /\ \/ Rank(a) < Rank(b)
       \/ IsFin(a) /\ IsFin(b) /\ a.v < b.v
FLe(a, b) ==
    /\ ~IsNaN(a) /\ ~IsNaN(b)
    /\ \/ Rank(a) < Rank(b)
       \/ IsInf(a) /\ IsInf(b) /\ a.v = b.v
       \/ IsFin(a) /\ IsFin(b) /\ a.v <= b.v
FGt(a, b) == FLt(b, a)
FGe(a, b) == FLe(b, a)

RECURSIVE ISqrtBetween(_, _, _)
ISqrtBetween(lo, hi, n) ==
    IF lo >= hi THEN lo
    ELSE LET mid == (lo + hi + 1) \div 2
         IN  IF mid * mid <= n THEN ISqrtBetween(mid, hi, n)
             ELSE ISqrtBetween(lo, mid - 1, n)

\* np.sqrt
FSqrt(a) ==
    IF IsNaN(a) THEN NaN
    ELSE IF IsInf(a) THEN (IF a.v > 0 THEN PInf ELSE NaN)
    ELSE IF a.v < 0 THEN NaN
    ELSE Fin(ISqrtBetween(0, 46340, a.v * SCALE))

\* e^z, z in thousandths: halve the argument until |z| <= 1/2, then the
\* Taylor polynomial of degree 5, then square back
RECURSIVE ExpI(_)
ExpI(z) ==
    IF z < -20 * SCALE THEN 0
    ELSE IF Abs(z) > SCALE \div 2
         THEN LET h == ExpI(Sgn(z) * (Abs(z) \div 2))
                  sq == MulI(h, h)
              IN  sq
    ELSE LET z2 == MulI(z, z)
             z3 == MulI(z2, z)
             z4 == MulI(z3, z)
             z5 == MulI(z4, z)
         IN  SCALE + z + z2 \div 2 + z3 \div 6 + z4 \div 24 + z5 \div 120

\* ln x for x > 0 in thousandths: scale x into [1, 2) by powers of two, then
\* 2 atanh((x-1)/(x+1)) to the seventh power
RECURSIVE LnI(_)
LnI(x) ==
    IF x < SCALE THEN LnI(2 * x) - 693
    ELSE IF x >= 2 * SCALE THEN LnI(x \div 2) + 693
    ELSE LET y == DivI(x - SCALE, x + SCALE)
             y2 == MulI(y, y)
             y3 == MulI(y2, y)
             y5 == MulI(y3, y2)
             y7 == MulI(y5, y2)
         IN  2 * (y + y3 \div 3 + y5 \div 5 + y7 \div 7)

\* np.exp
FExp(a) ==
    IF IsNaN(a) THEN NaN
    ELSE IF IsInf(a) THEN (IF a.v > 0 THEN PInf ELSE Zero)
    ELSE Fin(ExpI(a.v))

\* x ** (num/den) for a non-integer exponent num/den (IEEE pow): nan for a
\* negative base, 0 ** positive = 0, 0 ** negative = inf, 1 ** y = 1
FPow(a, num, den) ==
    IF IsNaN(a) THEN NaN
    ELSE IF IsInf(a) THEN (IF num > 0 THEN PInf ELSE Zero)
    ELSE IF a.v < 0 THEN NaN
    ELSE IF a.v = 0 THEN (IF num > 0 THEN Zero ELSE PInf)
    ELSE IF a.v = SCALE THEN One
    ELSE Fin(ExpI((LnI(a.v) * num) \div den))

\* x ** 4
FPow4(a) == FMul(FMul(a, a), FMul(a, a))

\* np.clip(x, lo, hi): nan stays nan
FClip(a, lo, hi) ==
    IF IsNaN(a) THEN NaN
    ELSE IF FLt(a, lo) THEN lo
    ELSE IF FGt(a, hi) THEN hi
    ELSE a


\* ------------------------------------------------------------------------
\* pandas Series (positional) and its reductions
\* ------------------------------------------------------------------------
Map1(f(_), s) == [p \in 1..Len(s) |-> f(s[p])]
Map2(f(_, _), s, t) == [p \in 1..Len(s) |-> f(s[p], t[p])]

RECURSIVE SumSkipNaN(_)
SumSkipNaN(s) ==
    IF s = <<>> THEN Zero
    ELSE IF IsNaN(Head(s)) THEN SumSkipNaN(Tail(s))
    ELSE FAdd(Head(s), SumSkipNaN(Tail(s)))

RECURSIVE CountNotNaN(_)
CountNotNaN(s) ==
    IF s = <<>> THEN 0
    ELSE (IF IsNaN(Head(s)) THEN 0 ELSE 1) + CountNotNaN(Tail(s))

\* np.mean(series) is series.mean(): skipna=True, nan for no valid entry
SeriesMean(s) ==
    IF CountNotNaN(s) = 0 THEN NaN
    ELSE FDiv(SumSkipNaN(s), F(CountNotNaN(s)))

Square(a) == FMul(a, a)
HasNaN(s) == \E p \in 1..Len(s) : IsNaN(s[p])

\* ------------------------------------------------------------------------
\* models.py: the formula library
\* ------------------------------------------------------------------------
\* Stefan-Boltzmann constant 5.67e-8, kept as 5.67 with Ta scaled by 1/100
sigma == 5670

\* sigma * Ta ** 4
SigmaT4(Ta) == FMul(Fin(sigma), FPow4(FDiv(Ta, F(100))))

brutsaert_clear_sky(Ta, ea) ==
    LET epsilon_0 == FMul(Fin(1240), FPow(FDiv(ea, Ta), 1, 7))
    IN  FMul(epsilon_0, SigmaT4(Ta))

None == [present |-> FALSE, val |-> <<>>]
Some(s) == [present |-> TRUE, val |-> s]

\* on Series ghi_m, ghi_c and an optional Series clr_pct
calculate_cloud_fraction(ghi_m, ghi_c, clr_pct) ==
    IF clr_pct.present
    THEN Map1(LAMBDA x : FSub(One, x), clr_pct.val)
    ELSE LET cloud_fraction == Map2(LAMBDA m, c : FSub(One, FDiv(m, c)), ghi_m, ghi_c)
         IN  Map1(LAMBDA x : FClip(x, Zero, One), cloud_fraction)

maykut_church(LW_clear, c) ==
    FMul(LW_clear, FAdd(One, FMul(Fin(220), FPow(c, 275, 100))))

jacobs(LW_clear, c) ==
    FMul(LW_clear, FAdd(One, FMul(Fin(260), c)))

suguita_brutsaert(LW_clear, c) ==
    FMul(LW_clear, FAdd(One, FMul(Fin(50), FPow(c, 245, 100))))

konzelmann(LW_clear, c, Ta) ==
    FAdd(FMul(LW_clear, FSub(One, FPow4(c))),
         FMul(FMul(Fin(952), FPow4(c)), SigmaT4(Ta)))

crawford_duchon(LW_clear, c, Ta) ==
    FAdd(FMul(LW_clear, FSub(One, c)), FMul(c, SigmaT4(Ta)))

\* lhomme with the unit coefficient of the other linear corrections
lhomme_unit(LW_clear, c) ==
    FMul(LW_clear, FAdd(One, FMul(Fin(340), c)))

lhomme(LW_clear, c) ==
    FMul(LW_clear, FAdd(Fin(1030), FMul(Fin(340), c)))

NoValue == <<>>
Returned(v) == [exc |-> "none", value |-> v]
Raised(e) == [exc |-> e, value |-> NoValue]

\* the dispatcher with the else branch falling back to the default model
compute_cloudy_LW_default(Ta, ea, c, model) ==
    LET LW_clear == Map2(brutsaert_clear_sky, Ta, ea)
        n == Len(Ta)
    IN  IF model = "maykut_church"
        THEN Returned([p \in 1..n |-> maykut_church(LW_clear[p], c[p])])
        ELSE IF model = "jacobs"
        THEN Returned([p \in 1..n |-> jacobs(LW_clear[p], c[p])])
        ELSE IF model = "suguita_brutsaert"
        THEN Returned([p \in 1..n |-> suguita_brutsaert(LW_clear[p], c[p])])
        ELSE IF model = "konzelmann"
        THEN Returned([p \in 1..n |-> konzelmann(LW_clear[p], c[p], Ta[p])])
        ELSE IF model = "lhomme"
        THEN Returned([p \in 1..n |-> lhomme(LW_clear[p], c[p])])
        ELSE Returned([p \in 1..n |-> crawford_duchon(LW_clear[p], c[p], Ta[p])])

\* on Series Ta, ea, c: the baseline first, then the if/elif chain
compute_cloudy_LW(Ta, ea, c, model) ==
    LET LW_clear == Map2(brutsaert_clear_sky, Ta, ea)
        n == Len(Ta)
    IN  IF model = "maykut_church"
        THEN Returned([p \in 1..n |-> maykut_church(LW_clear[p], c[p])])
        ELSE IF model = "jacobs"
        THEN Returned([p \in 1..n |-> jacobs(LW_clear[p], c[p])])
        ELSE IF model = "suguita_brutsaert"
        THEN Returned([p \in 1..n |-> suguita_brutsaert(LW_clear[p], c[p])])
        ELSE IF model = "konzelmann"
        THEN Returned([p \in 1..n |-> konzelmann(LW_clear[p], c[p], Ta[p])])
        ELSE IF model = "crawford_duchon"
        THEN Returned([p \in 1..n |-> crawford_duchon(LW_clear[p], c[p], Ta[p])])
        ELSE IF model = "lhomme"
        THEN Returned([p \in 1..n |-> lhomme(LW_clear[p], c[p])])
        ELSE Raised("ValueError")

compute_emissivity(LW_measured, Ta) == FDiv(LW_measured, SigmaT4(Ta))


\* ------------------------------------------------------------------------
\* DataFrames: the columns a frame has, and its rows in order (a row maps
\* each column to its value)
\* ------------------------------------------------------------------------
Frame(cols, rows) == [cols |-> cols, rows |-> rows]
Column(df, c) == [p \in 1..Len(df.rows) |-> df.rows[p][c]]

\* df[c] = series (same length) or df[c] = scalar
WithColumn(df, c, series) ==
    Frame(df.cols \cup {c},
          [p \in 1..Len(df.rows) |->
              [x \in df.cols \cup {c} |-> IF x = c THEN series[p] ELSE df.rows[p][x]]])
WithScalar(df, c, value) == WithColumn(df, c, [p \in 1..Len(df.rows) |-> value])

RECURSIVE AllCols(_)
AllCols(frames) ==
    IF frames = <<>> THEN {} ELSE Head(frames).cols \cup AllCols(Tail(frames))

RECURSIVE AllRows(_, _)
AllRows(frames, cols) ==
    IF frames = <<>> THEN <<>>
    ELSE [p \in 1..Len(Head(frames).rows) |->
             [x \in cols |-> IF x \in Head(frames).cols
                             THEN Head(frames).rows[p][x] ELSE NaN]]
         \o AllRows(Tail(frames), cols)

\* pd.concat(frames, ignore_index=True) of a non-empty list: the union of the
\* columns, nan where a frame lacks one, rows in list order
Concat(frames) == Frame(AllCols(frames), AllRows(frames, AllCols(frames)))

\* ------------------------------------------------------------------------
\* models.py: read_surfrad_h5
\* ------------------------------------------------------------------------
RequiredCols == {"ghi_m", "ghi_c", "dlw_m", "t_m", "pw_hpa"}

\* the try body for one station; df is the table read for it
ProcessStation(df, station) ==
    IF ~(RequiredCols \subseteq df.cols) THEN Raised("KeyError")
    ELSE LET clr == IF "clr_pct" \in df.cols THEN Some(Column(df, "clr_pct")) ELSE None
             d1 == WithColumn(df, "Cloud_Fraction",
                       calculate_cloud_fraction(Column(df, "ghi_m"), Column(df, "ghi_c"), clr))
             d2 == WithColumn(d1, "Emissivity_measured",
                       Map2(compute_emissivity, Column(d1, "dlw_m"), Column(d1, "t_m")))
             d3 == WithColumn(d2, "Ta", Column(d2, "t_m"))
             d4 == WithColumn(d3, "ea", Column(d3, "pw_hpa"))
         IN  Returned(WithScalar(d4, "Station", station))

\* pd.read_hdf(file_path, key=station)
read_hdf(file, station) ==
    IF station \in DOMAIN file THEN Returned(file[station]) ELSE Raised("KeyError")


\* ------------------------------------------------------------------------
\* State
\* ------------------------------------------------------------------------
VARIABLES
    \* read_surfrad_h5(file_path, stations)
    h5,              \* the HDF5 file: station key -> stored table
    stations,        \* the station list
    st_i,            \* position of the for loop
    combined_data,   \* the list of station frames
    warnings,        \* stations skipped with a printed warning
    surfrad_data,    \* the frame returned
    pcR, excR,
    \* validate_emissivity(data, models) and the best-model selection
    data, models,
    mod_j,           \* position of the for loop
    results,         \* the dict, in insertion order
    metric_inputs,   \* per model: the two series handed to the metric block
    model_results,   \* the dict returned
    best_model,
    pcV, excV,
    \* HIdata_error.py, the script
    loaded,          \* the table read from the spreadsheet
    hi_data,         \* the name data
    ser,             \* the column Series bound to dhi_m, ghi_m, dni_m, dni_c,
                     \* temp, dlw, rh, altitude
    fn_calls,        \* per call of a formula: the index of the Series passed
    metrics,         \* mbe, rmse, rMBE, rRMSE
    csv,             \* the rows written by to_csv
    pcH,
    \* one call of a library function on drawn arguments
    fn_in, fn_out, pcF

readVars == <<h5, stations, st_i, combined_data, warnings, surfrad_data, pcR, excR>>
valVars == <<data, models, mod_j, results, metric_inputs, model_results, best_model, pcV, excV>>
hiVars == <<loaded, hi_data, ser, fn_calls, metrics, csv, pcH>>
fnVars == <<fn_in, fn_out, pcF>>
vars == <<readVars, valVars, hiVars, fnVars>>

NoFrame == Frame({}, <<>>)

\* ------------------------------------------------------------------------
\* Inputs: SURFRAD station tables
\* ------------------------------------------------------------------------
MaxRowsRead == 2
MaxRowsVal == 2
MaxModels == 2

RawCols == RequiredCols \cup {"clr_pct"}

SurfradRow(ghi_m, ghi_c, clr_pct, dlw_m, t_m, pw_hpa) ==
    [x \in RawCols |->
        CASE x = "ghi_m" -> ghi_m
          [] x = "ghi_c" -> ghi_c
          [] x = "clr_pct" -> clr_pct
          [] x = "dlw_m" -> dlw_m
          [] x = "t_m" -> t_m
          [] x = "pw_hpa" -> pw_hpa]

\* a clear-sky noon, a night reading (no irradiance, no clear-sky flag), a
\* reading above the clear-sky reference, a gap in the temperature record
clearRow == SurfradRow(F(800), F(800), One, F(350), F(300), F(20))
nightRow == SurfradRow(Zero, Zero, NaN, F(320), F(280), F(10))
overRow == SurfradRow(F(900), F(800), F(2), F(380), F(295), F(18))
gapRow == SurfradRow(F(400), F(800), Fin(500), F(400), NaN, F(15))

SeqsUpTo(S, n) == UNION {[1..m -> S] : m \in 0..n}

Restrict(row, cols) == [x \in cols |-> row[x]]
Table(cols, rows) == Frame(cols, [p \in 1..Len(rows) |-> Restrict(rows[p], cols)])

ReadRows == {clearRow, nightRow, overRow}
StationTables ==
    {Table(cols, rows) : cols \in {RawCols, RequiredCols}, rows \in SeqsUpTo(ReadRows, MaxRowsRead)}
    \cup {Table(RawCols \ {c}, <<clearRow>>) : c \in RequiredCols}

StationIds == {"BON", "DRA"}

\* ------------------------------------------------------------------------
\* read_surfrad_h5: one action per pass of the for loop, one for the return
\* ------------------------------------------------------------------------
InitRead ==
    /\ \E keys \in SUBSET StationIds : h5 \in [keys -> StationTables]
    /\ stations \in SeqsUpTo(StationIds, 2) \ {<<>>}
    /\ st_i = 1
    /\ combined_data = <<>>
    /\ warnings = <<>>
    /\ surfrad_data = NoFrame
    /\ pcR = "loop"
    /\ excR = "none"

IdleRead ==
    /\ h5 = <<>>
    /\ stations = <<>>
    /\ st_i = 0
    /\ combined_data = <<>>
    /\ warnings = <<>>
    /\ surfrad_data = NoFrame
    /\ pcR = "idle"
    /\ excR = "none"

\* the try body and its except KeyError clause, for stations[st_i]
StationResult(file, station) ==
    LET df == read_hdf(file, station)
    IN  IF df.exc # "none" THEN df ELSE ProcessStation(df.value, station)

ReadStation ==
    /\ pcR = "loop"
    /\ st_i <= Len(stations)
    /\ LET station == stations[st_i]
           r == StationResult(h5, station)
       IN  IF r.exc = "KeyError"
           THEN /\ warnings' = Append(warnings, station)
                /\ UNCHANGED combined_data
           ELSE /\ combined_data' = Append(combined_data, r.value)
                /\ UNCHANGED warnings
    /\ st_i' = st_i + 1
    /\ UNCHANGED <<h5, stations, surfrad_data, pcR, excR, valVars, hiVars, fnVars>>

\* return pd.concat(combined_data, ignore_index=True)
ReturnCombined ==
    /\ pcR = "loop"
    /\ st_i > Len(stations)
    /\ IF combined_data = <<>>
       THEN /\ excR' = "ValueError"
            /\ pcR' = "raised"
            /\ UNCHANGED surfrad_data
       ELSE /\ surfrad_data' = Concat(combined_data)
            /\ pcR' = "returned"
            /\ UNCHANGED excR
    /\ UNCHANGED <<h5, stations, st_i, combined_data, warnings, valVars, hiVars, fnVars>>

NextRead == ReadStation \/ ReturnCombined

\* ------------------------------------------------------------------------
\* validate_emissivity and the selection of the best model
\* ------------------------------------------------------------------------
ValRows == {clearRow, nightRow, overRow, gapRow}
ListedModels == {"maykut_church", "jacobs", "lhomme"}
UnknownModel == "not_a_real_model"
MainModels ==
    <<"maykut_church", "jacobs", "suguita_brutsaert", "konzelmann",
      "crawford_duchon", "lhomme">>
ModelIds == ListedModels \cup {UnknownModel}

Pending == [exc |-> "pending", value |-> NoValue]

InitValidate ==
    /\ \E rows \in SeqsUpTo(ValRows, MaxRowsVal) :
          data = Concat(<<ProcessStation(Table(RawCols, rows), "BON").value>>)
    /\ models \in SeqsUpTo(ModelIds, MaxModels) \cup {MainModels}
    /\ mod_j = 1
    /\ results = <<>>
    /\ metric_inputs = <<>>
    /\ model_results = Pending
    /\ best_model = Pending
    /\ pcV = "loop"
    /\ excV = "none"

IdleValidate ==
    /\ data = NoFrame
    /\ models = <<>>
    /\ mod_j = 0
    /\ results = <<>>
    /\ metric_inputs = <<>>
    /\ model_results = Pending
    /\ best_model = Pending
    /\ pcV = "idle"
    /\ excV = "none"

\* results[model] = report: a new key goes last, an old key keeps its place
DictSet(d, key, report) ==
    IF \E q \in 1..Len(d) : d[q].model = key
    THEN [q \in 1..Len(d) |-> IF d[q].model = key THEN report ELSE d[q]]
    ELSE Append(d, report)

\* the metric block of validate_emissivity for one model
ErrorReport(model, predicted_emissivity, measured_emissivity) ==
    LET error == Map2(FSub, predicted_emissivity, measured_emissivity)
        mbe == SeriesMean(error)
        rmse == FSqrt(SeriesMean(Map1(Square, error)))
        rMBE == FMul(FDiv(mbe, SeriesMean(measured_emissivity)), F(100))
        rRMSE == FMul(FDiv(rmse, SeriesMean(measured_emissivity)), F(100))
    IN  [model |-> model, MBE |-> mbe, RMSE |-> rmse, rMBE |-> rMBE, rRMSE |-> rRMSE]

ValidateModel ==
    /\ pcV = "loop"
    /\ mod_j <= Len(models)
    /\ LET model == models[mod_j]
           Ta == Column(data, "Ta")
           predicted_LW == compute_cloudy_LW(Ta, Column(data, "ea"),
                                             Column(data, "Cloud_Fraction"), model)
       IN  IF predicted_LW.exc # "none"
           THEN /\ excV' = predicted_LW.exc
                /\ pcV' = "raised"
                /\ UNCHANGED <<results, metric_inputs, mod_j>>
           ELSE LET predicted_emissivity ==
                        Map2(LAMBDA lw, t : FDiv(lw, SigmaT4(t)), predicted_LW.value, Ta)
                    measured_emissivity == Column(data, "Emissivity_measured")
                IN  /\ results' = DictSet(results, model,
                            ErrorReport(model, predicted_emissivity, measured_emissivity))
                    /\ metric_inputs' = Append(metric_inputs,
                            [model |-> model, predicted |-> predicted_emissivity,
                             measured |-> measured_emissivity])
                    /\ mod_j' = mod_j + 1
                    /\ UNCHANGED <<pcV, excV>>
    /\ UNCHANGED <<data, models, model_results, best_model, readVars, hiVars, fnVars>>

ReturnResults ==
    /\ pcV = "loop"
    /\ mod_j > Len(models)
    /\ model_results' = Returned(results)
    /\ pcV' = "returned"
    /\ UNCHANGED <<data, models, mod_j, results, metric_inputs, best_model, excV, readVars, hiVars, fnVars>>

\* min(d, key=lambda m: d[m]['RMSE']): the first key is the candidate, a
\* later key replaces it only when its RMSE compares less
RECURSIVE MinByRMSE(_, _)
MinByRMSE(best, rest) ==
    IF rest = <<>> THEN best
    ELSE IF FLt(Head(rest).RMSE, best.RMSE) THEN MinByRMSE(Head(rest), Tail(rest))
    ELSE MinByRMSE(best, Tail(rest))

SelectBest ==
    /\ pcV = "returned"
    /\ IF model_results.value = <<>>
       THEN /\ excV' = "ValueError"
            /\ pcV' = "raised"
            /\ UNCHANGED best_model
       ELSE /\ best_model' = Returned(MinByRMSE(Head(model_results.value),
                                                Tail(model_results.value)).model)
            /\ pcV' = "done"
            /\ UNCHANGED excV
    /\ UNCHANGED <<data, models, mod_j, results, metric_inputs, model_results, readVars, hiVars, fnVars>>

NextValidate == ValidateModel \/ ReturnResults \/ SelectBest


\* ------------------------------------------------------------------------
\* HIdata_error.py: labelled Series and frames (the index labels survive the
\* row filter, and a column assignment aligns on them)
\* ------------------------------------------------------------------------
Labels(index) == {index[p] : p \in 1..Len(index)}
Series(index, val) == [index |-> index, val |-> val]
IFrame(index, cols, rows) == [index |-> index, cols |-> cols, rows |-> rows]
NoIFrame == IFrame(<<>>, {}, <<>>)

\* df[c]
IColumn(df, c) == Series(df.index, [l \in Labels(df.index) |-> df.rows[l][c]])

\* elementwise operations on Series that share one index
SMap2(f(_, _), s, t) == Series(s.index, [l \in Labels(s.index) |-> f(s.val[l], t.val[l])])
SMap3(f(_, _, _), s, t, u) ==
    Series(s.index, [l \in Labels(s.index) |-> f(s.val[l], t.val[l], u.val[l])])
SMap4(f(_, _, _, _), s, t, u, w) ==
    Series(s.index, [l \in Labels(s.index) |-> f(s.val[l], t.val[l], u.val[l], w.val[l])])
Values(s) == [p \in 1..Len(s.index) |-> s.val[s.index[p]]]

\* df[c] = series: aligned on the frame's index, nan for a label the
\* series lacks
IWithColumn(df, c, s) ==
    IFrame(df.index, df.cols \cup {c},
           [l \in Labels(df.index) |->
               [x \in df.cols \cup {c} |->
                   IF x # c THEN df.rows[l][x]
                   ELSE IF l \in Labels(s.index) THEN s.val[l] ELSE NaN]])

\* df[mask]
IFilter(df, mask(_)) ==
    LET kept == SelectSeq(df.index, LAMBDA l : mask(df.rows[l]))
    IN  IFrame(kept, df.cols, [l \in Labels(kept) |-> df.rows[l]])

\* Constants for the CF formula, in thousandths
a1 == 420
a2 == 834
m1 == 249
m2 == -131
n1 == -318
\* Scale height in meters
H == 8500

calculate_cf(dhi_m, ghi_m, dni_m, dni_c) ==
    LET k_d == FDiv(dhi_m, ghi_m)
        k_t == FDiv(dni_m, dni_c)
    IN  FAdd(FAdd(FMul(Fin(a1), FPow(k_d, a2, SCALE)),
                  FMul(Fin(m1), FPow(k_t, m2, SCALE))),
             Fin(n1))

predict_epsilon_sky(cf, epsilon_clear_sky, epsilon_clouds) ==
    FAdd(FMul(FSub(One, cf), epsilon_clear_sky), FMul(cf, epsilon_clouds))

calculate_actual_epsilon(temp, dlw) ==
    LET t_kelvin == FAdd(temp, Fin(273150))
    IN  FDiv(dlw, SigmaT4(t_kelvin))

calculate_clear_sky_emissivity(temp, rh, altitude) ==
    LET e_s == FMul(Fin(6112),
                    FExp(FDiv(FMul(Fin(17625), temp),
                              FAdd(FSub(temp, Fin(30110)), Fin(273150)))))
        pw_hpa == FDiv(FMul(e_s, rh), F(100))
        sqrt_pw == FSqrt(FDiv(pw_hpa, Fin(1013250)))
    IN  FAdd(FAdd(Fin(600), FMul(Fin(1652), sqrt_pw)),
             FMul(Fin(150), FSub(FExp(FDiv(FNeg(altitude), F(H))), One)))

\* calculate_errors with the difference replaced by a sum
calculate_errors_sum(actual, predicted) ==
    LET errors == Map2(FAdd, predicted, actual)
        mbe == SeriesMean(errors)
        rmse == FSqrt(SeriesMean(Map1(Square, errors)))
        rMBE == FMul(FDiv(mbe, SeriesMean(actual)), F(100))
        rRMSE == FMul(FDiv(rmse, SeriesMean(actual)), F(100))
    IN  <<mbe, rmse, rMBE, rRMSE>>

\* on two Series (as sequences of values) of one frame
calculate_errors(actual, predicted) ==
    LET errors == Map2(FSub, predicted, actual)
        mbe == SeriesMean(errors)
        rmse == FSqrt(SeriesMean(Map1(Square, errors)))
        rMBE == FMul(FDiv(mbe, SeriesMean(actual)), F(100))
        rRMSE == FMul(FDiv(rmse, SeriesMean(actual)), F(100))
    IN  <<mbe, rmse, rMBE, rRMSE>>

\* Data filtering conditions, on one row
condition_0(row) == FLt(row["Solar Zenith Angle"], Fin(72500))
\* condition_1 with | in place of &
condition_1_or(row) == FGt(row["GHI"], Zero) \/ FGt(row["DHI"], Zero)
condition_1(row) == FGt(row["GHI"], Zero) /\ FGt(row["DHI"], Zero)
condition_2(row) ==
    /\ FGt(FDiv(row["DNI"], row["Clearsky DNI"]), Zero)
    /\ FLe(FDiv(row["DNI"], row["Clearsky DNI"]), Fin(1500))
condition_3(row) == FLe(row["temp"], F(90)) /\ FGe(row["temp"], F(-80))
condition_4(row) == FGt(row["dlw"], Zero)
RowMask(row) ==
    condition_0(row) /\ condition_1(row) /\ condition_2(row) /\ condition_3(row)
    /\ condition_4(row)

\* ------------------------------------------------------------------------
\* Inputs: the station spreadsheet
\* ------------------------------------------------------------------------
MaxRowsHI == 2

HICols ==
    {"Solar Zenith Angle", "GHI", "DHI", "DNI", "Clearsky DNI", "temp", "dlw", "rh",
     "site_elev"}

baseRow ==
    [x \in HICols |->
        CASE x = "Solar Zenith Angle" -> F(30)
          [] x = "GHI" -> F(500)
          [] x = "DHI" -> F(100)
          [] x = "DNI" -> F(600)
          [] x = "Clearsky DNI" -> F(800)
          [] x = "temp" -> F(20)
          [] x = "dlw" -> F(350)
          [] x = "rh" -> F(60)
          [] x = "site_elev" -> F(100)]

With(row, c, v) == [row EXCEPT ![c] = v]

HIRows ==
    {baseRow,
     With(baseRow, "Solar Zenith Angle", Fin(72500)),
     With(baseRow, "GHI", Zero),
     With(baseRow, "DHI", Zero),
     With(baseRow, "Clearsky DNI", Zero),
     With(baseRow, "DNI", F(1200)),
     With(baseRow, "DNI", F(1300)),
     With(baseRow, "temp", F(95)),
     With(baseRow, "temp", F(90)),
     With(baseRow, "dlw", Zero),
     With(baseRow, "rh", NaN)}

\* the five-row end-to-end table
ScenarioRows ==
    <<With(With(baseRow, "GHI", F(500)), "DHI", F(100)),
      With(With(baseRow, "GHI", Zero), "DHI", F(50)),
      baseRow,
      With(baseRow, "temp", F(95)),
      baseRow>>

\* pd.read_excel: a RangeIndex 0..n-1
ReadExcel(rows) ==
    IFrame([p \in 1..Len(rows) |-> p - 1], HICols, [l \in 0..(Len(rows) - 1) |-> rows[l + 1]])

\* ------------------------------------------------------------------------
\* HIdata_error.py: the script, one action per statement group
\* ------------------------------------------------------------------------
InitHI ==
    /\ \E rows \in SeqsUpTo(HIRows, MaxRowsHI) \cup {ScenarioRows} : loaded = ReadExcel(rows)
    /\ hi_data = loaded
    /\ ser = <<>>
    /\ fn_calls = <<>>
    /\ metrics = <<>>
    /\ csv = <<>>
    /\ pcH = "extract"

IdleHI ==
    /\ loaded = NoIFrame
    /\ hi_data = NoIFrame
    /\ ser = <<>>
    /\ fn_calls = <<>>
    /\ metrics = <<>>
    /\ csv = <<>>
    /\ pcH = "idle"

epsilon_clouds == One

\* dhi_m = data['DHI'] ... altitude = data['site_elev']
ExtractColumns ==
    /\ pcH = "extract"
    /\ ser' = [dhi_m |-> IColumn(hi_data, "DHI"),
               ghi_m |-> IColumn(hi_data, "GHI"),
               dni_m |-> IColumn(hi_data, "DNI"),
               dni_c |-> IColumn(hi_data, "Clearsky DNI"),
               temp |-> IColumn(hi_data, "temp"),
               dlw |-> IColumn(hi_data, "dlw"),
               rh |-> IColumn(hi_data, "rh"),
               altitude |-> IColumn(hi_data, "site_elev")]
    /\ pcH' = "filter"
    /\ UNCHANGED <<loaded, hi_data, fn_calls, metrics, csv, readVars, valVars, fnVars>>

\* data = data[condition_0 & ... & condition_4]
FilterRows ==
    /\ pcH = "filter"
    /\ hi_data' = IFilter(hi_data, RowMask)
    /\ pcH' = "actual_epsilon"
    /\ UNCHANGED <<loaded, ser, fn_calls, metrics, csv, readVars, valVars, fnVars>>

Call(fn, arg) == [fn |-> fn, index |-> arg.index]

\* data['actual_epsilon'] = calculate_actual_epsilon(temp, dlw)
ComputeActualEpsilon ==
    /\ pcH = "actual_epsilon"
    /\ fn_calls' = Append(fn_calls, Call("calculate_actual_epsilon", ser.temp))
    /\ hi_data' = IWithColumn(hi_data, "actual_epsilon",
                      SMap2(calculate_actual_epsilon, ser.temp, ser.dlw))
    /\ pcH' = "epsilon_clear_sky"
    /\ UNCHANGED <<loaded, ser, metrics, csv, readVars, valVars, fnVars>>

\* data['epsilon_clear_sky'] = calculate_clear_sky_emissivity(temp, rh, altitude)
ComputeClearSky ==
    /\ pcH = "epsilon_clear_sky"
    /\ fn_calls' = Append(fn_calls, Call("calculate_clear_sky_emissivity", ser.temp))
    /\ hi_data' = IWithColumn(hi_data, "epsilon_clear_sky",
                      SMap3(calculate_clear_sky_emissivity, ser.temp, ser.rh, ser.altitude))
    /\ pcH' = "CF"
    /\ UNCHANGED <<loaded, ser, metrics, csv, readVars, valVars, fnVars>>

\* data['CF'] = calculate_cf(dhi_m, ghi_m, dni_m, dni_c)
ComputeCF ==
    /\ pcH = "CF"
    /\ fn_calls' = Append(fn_calls, Call("calculate_cf", ser.dhi_m))
    /\ hi_data' = IWithColumn(hi_data, "CF",
                      SMap4(calculate_cf, ser.dhi_m, ser.ghi_m, ser.dni_m, ser.dni_c))
    /\ pcH' = "predicted_epsilon"
    /\ UNCHANGED <<loaded, ser, metrics, csv, readVars, valVars, fnVars>>

\* data['predicted_epsilon'] = predict_epsilon_sky(data['CF'],
\*     data['epsilon_clear_sky'], epsilon_clouds)
ComputePredicted ==
    /\ pcH = "predicted_epsilon"
    /\ hi_data' = IWithColumn(hi_data, "predicted_epsilon",
                      SMap2(LAMBDA cf, ecs : predict_epsilon_sky(cf, ecs, epsilon_clouds),
                            IColumn(hi_data, "CF"), IColumn(hi_data, "epsilon_clear_sky")))
    /\ pcH' = "errors"
    /\ UNCHANGED <<loaded, ser, fn_calls, metrics, csv, readVars, valVars, fnVars>>

\* mbe, rmse, rMBE, rRMSE = calculate_errors(data['actual_epsilon'],
\*     data['predicted_epsilon'])
ComputeErrors ==
    /\ pcH = "errors"
    /\ metrics' = calculate_errors(Values(IColumn(hi_data, "actual_epsilon")),
                                   Values(IColumn(hi_data, "predicted_epsilon")))
    /\ pcH' = "save"
    /\ UNCHANGED <<loaded, hi_data, ser, fn_calls, csv, readVars, valVars, fnVars>>

\* data.to_csv(..., index=False)
SaveCsv ==
    /\ pcH = "save"
    /\ csv' = [p \in 1..Len(hi_data.index) |-> hi_data.rows[hi_data.index[p]]]
    /\ pcH' = "done"
    /\ UNCHANGED <<loaded, hi_data, ser, fn_calls, metrics, readVars, valVars, fnVars>>

NextHI ==
    \/ ExtractColumns
    \/ FilterRows
    \/ ComputeActualEpsilon
    \/ ComputeClearSky
    \/ ComputeCF
    \/ ComputePredicted
    \/ ComputeErrors
    \/ SaveCsv

\* ------------------------------------------------------------------------
\* One call of compute_cloudy_LW or calculate_errors on drawn arguments
\* ------------------------------------------------------------------------
MaxLen == 2

TaValues == {F(300), F(280), Zero, NaN}
eaValues == {F(20), F(10), Zero, NaN}
cValues == {Zero, Fin(500), One, F(-1), NaN}
ErrValues == {One, Fin(1100), Fin(900), F(-1), NaN}

DispatchInputs ==
    {[fn |-> "compute_cloudy_LW", Ta |-> t, ea |-> e, c |-> c, model |-> m] :
        t \in TaValues, e \in eaValues, c \in cValues,
        m \in {MainModels[q] : q \in 1..Len(MainModels)} \cup {UnknownModel}}

ErrorsInputs ==
    UNION {{[fn |-> "calculate_errors", actual |-> a, predicted |-> q] :
               a \in [1..n -> ErrValues], q \in [1..n -> ErrValues]} : n \in 0..MaxLen}

InitFn ==
    /\ fn_in \in DispatchInputs \cup ErrorsInputs
    /\ fn_out = Pending
    /\ pcF = "call"

IdleFn ==
    /\ fn_in = <<>>
    /\ fn_out = Pending
    /\ pcF = "idle"

CallDispatch ==
    /\ pcF = "call"
    /\ fn_in.fn = "compute_cloudy_LW"
    /\ LET r == compute_cloudy_LW(<<fn_in.Ta>>, <<fn_in.ea>>, <<fn_in.c>>, fn_in.model)
       IN  fn_out' = IF r.exc = "none" THEN Returned(r.value[1]) ELSE r
    /\ pcF' = "done"
    /\ UNCHANGED <<fn_in, readVars, valVars, hiVars>>

CallErrors ==
    /\ pcF = "call"
    /\ fn_in.fn = "calculate_errors"
    /\ fn_out' = Returned(calculate_errors(fn_in.actual, fn_in.predicted))
    /\ pcF' = "done"
    /\ UNCHANGED <<fn_in, readVars, valVars, hiVars>>

NextFn == CallDispatch \/ CallErrors

\* ------------------------------------------------------------------------
\* Specifications
\* ------------------------------------------------------------------------
InitReadOnly == InitRead /\ IdleValidate /\ IdleHI /\ IdleFn
InitValidateOnly == IdleRead /\ InitValidate /\ IdleHI /\ IdleFn
InitHIOnly == IdleRead /\ IdleValidate /\ InitHI /\ IdleFn
InitFnOnly == IdleRead /\ IdleValidate /\ IdleHI /\ InitFn
SpecRead == InitReadOnly /\ [][NextRead]_vars
SpecValidate == InitValidateOnly /\ [][NextValidate]_vars
SpecHI == InitHIOnly /\ [][NextHI]_vars
SpecFn == InitFnOnly /\ [][NextFn]_vars

Init == InitReadOnly \/ InitValidateOnly \/ InitHIOnly \/ InitFnOnly
Next == NextRead \/ NextValidate \/ NextHI \/ NextFn
Spec == Init /\ [][Next]_vars

\* ------------------------------------------------------------------------
\* Properties
\* ------------------------------------------------------------------------
Known(model) ==
    model \in {"maykut_church", "jacobs", "suguita_brutsaert", "konzelmann",
               "crawford_duchon", "lhomme"}

\* C1: a model identifier outside the six names makes compute_cloudy_LW raise
\* ValueError whatever the columns hold, and validate_emissivity stops at that
\* model: the loop never passes an unknown identifier, reports exist only for
\* the models before it, and no results map (nor a best model) is returned.
C1_UnknownModelAborts ==
    /\ \A q \in 1..Len(models) : q < mod_j => Known(models[q])
    /\ Len(metric_inputs) = (IF mod_j = 0 THEN 0 ELSE mod_j - 1)
    /\ pcV \in {"returned", "done"} => \A q \in 1..Len(models) : Known(models[q])
    /\ (pcV \in {"loop", "raised"} /\ mod_j <= Len(models)) =>
           model_results = Pending /\ best_model = Pending
    /\ (pcV = "raised" /\ mod_j <= Len(models)) =>
           /\ ~Known(models[mod_j])
           /\ excV = "ValueError"
           /\ \A q \in 1..Len(results) :
                 /\ results[q].model # models[mod_j]
                 /\ \E r \in 1..(mod_j - 1) : models[r] = results[q].model
    /\ (pcV = "loop" /\ mod_j <= Len(models) /\ ~Known(models[mod_j])) =>
           /\ ~ENABLED ReturnResults
           /\ ~ENABLED SelectBest

C1_Witness ==
    /\ pcV = "raised"
    /\ excV = "ValueError"
    /\ mod_j = 2
    /\ models[2] = UnknownModel
    /\ Len(models) = 2
    /\ Len(results) = 1
    /\ Len(data.rows) = 2

\* C2: read_surfrad_h5 never fails for missing station tables, all of them
\* missing included: it ends by returning a table that holds exactly the rows
\* of the stations present in the file, in station-list order, each tagged
\* with its station, and the missing stations are the ones warned about.
\* (Stated for files whose tables all have the expected columns.)
RECURSIVE RowsOfPresent(_)
RowsOfPresent(sts) ==
    IF sts = <<>> THEN <<>>
    ELSE (IF Head(sts) \in DOMAIN h5
          THEN [p \in 1..Len(h5[Head(sts)].rows) |->
                   [station |-> Head(sts), row |-> h5[Head(sts)].rows[p]]]
          ELSE <<>>) \o RowsOfPresent(Tail(sts))

C2_MissingStationsSkipped ==
    (/\ pcR \in {"returned", "raised"}
     /\ \A st \in DOMAIN h5 : {"ghi_m", "ghi_c", "dlw_m", "t_m", "pw_hpa"} \subseteq h5[st].cols) =>
        /\ pcR = "returned"
        /\ excR = "none"
        /\ warnings = SelectSeq(stations, LAMBDA st : st \notin DOMAIN h5)
        /\ Len(surfrad_data.rows) = Len(RowsOfPresent(stations))
        /\ \A p \in 1..Len(surfrad_data.rows) :
              LET want == RowsOfPresent(stations)[p]
              IN  /\ surfrad_data.rows[p]["Station"] = want.station
                  /\ \A c \in DOMAIN want.row : surfrad_data.rows[p][c] = want.row[c]

\* C3: no row that fails a filter predicate is passed to calculate_cf,
\* calculate_actual_epsilon or calculate_clear_sky_emissivity.
C3_FilterBeforeDerived ==
    \A q \in 1..Len(fn_calls) :
        \A l \in Labels(fn_calls[q].index) : RowMask(loaded.rows[l])

\* C4: a row is in the filtered and in the written table exactly when it
\* satisfies all five predicates, the retained rows are in their original
\* order, and the five-row table keeps rows 1, 3 and 5.
IsPos(a) == (IsFin(a) /\ a.v > 0) \/ (IsInf(a) /\ a.v > 0)
Keep(row) ==
    /\ IsFin(row["Solar Zenith Angle"]) /\ 10 * row["Solar Zenith Angle"].v < 725 * SCALE
    /\ IsPos(row["GHI"]) /\ IsPos(row["DHI"])
    /\ IsFin(row["DNI"]) /\ IsFin(row["Clearsky DNI"])
    /\ Sgn(row["DNI"].v) * Sgn(row["Clearsky DNI"].v) = 1
    /\ 2 * Abs(row["DNI"].v) <= 3 * Abs(row["Clearsky DNI"].v)
    /\ IsFin(row["temp"]) /\ -80 * SCALE <= row["temp"].v /\ row["temp"].v <= 90 * SCALE
    /\ IsPos(row["dlw"])

KeptLabels == SelectSeq(loaded.index, LAMBDA l : Keep(loaded.rows[l]))

C4_FilterKeepsExactly ==
    /\ pcH \in {"actual_epsilon", "epsilon_clear_sky", "CF", "predicted_epsilon",
                "errors", "save", "done"} =>
           /\ hi_data.index = KeptLabels
           /\ \A l \in Labels(hi_data.index) :
                  \A c \in HICols : hi_data.rows[l][c] = loaded.rows[l][c]
           /\ (Len(loaded.index) = 5 /\ loaded.rows = ReadExcel(ScenarioRows).rows)
                  => hi_data.index = <<0, 2, 4>>
    /\ pcH = "done" =>
           /\ Len(csv) = Len(KeptLabels)
           /\ \A p \in 1..Len(csv) :
                  \A c \in HICols : csv[p][c] = loaded.rows[KeptLabels[p]][c]

C4_Witness ==
    /\ pcH = "done"
    /\ Len(loaded.index) = 5
    /\ loaded.rows = ReadExcel(ScenarioRows).rows
    /\ Len(csv) = 3

\* C5: when the predicted or the actual series given to calculate_errors
\* holds a NaN, the MBE and the RMSE reported are NaN.
C5_NaNNotIgnored ==
    (pcH \in {"save", "done"}
     /\ (HasNaN(Values(IColumn(hi_data, "actual_epsilon")))
         \/ HasNaN(Values(IColumn(hi_data, "predicted_epsilon")))))
        => IsNaN(metrics[1]) /\ IsNaN(metrics[2])

\* the same for the metric block of validate_emissivity
C5_NaNNotIgnoredValidate ==
    \A q \in 1..Len(metric_inputs) :
        (HasNaN(metric_inputs[q].predicted) \/ HasNaN(metric_inputs[q].measured)) =>
            \A r \in 1..Len(results) :
                results[r].model = metric_inputs[q].model =>
                    IsNaN(results[r].MBE) /\ IsNaN(results[r].RMSE)

\* C6: a station whose table is in the file but lacks an expected column
\* makes read_surfrad_h5 fail towards its caller; it is not skipped with a
\* warning like a missing table.
LacksColumn(st) == st \in DOMAIN h5 /\ ~({"ghi_m", "ghi_c", "dlw_m", "t_m", "pw_hpa"} \subseteq h5[st].cols)

C6_SchemaErrorPropagates ==
    \A p \in 1..Len(stations) :
        (p < st_i /\ LacksColumn(stations[p])) =>
            /\ pcR = "raised"
            /\ excR = "KeyError"
            /\ \A w \in 1..Len(warnings) : warnings[w] # stations[p]

\* C7: the best model is an evaluated model whose RMSE is less than or equal
\* to the RMSE of every other evaluated model.  (Stated for result maps in
\* which at least one model has a numeric RMSE, so that a minimum exists.)
C7_BestHasMinimumRMSE ==
    (/\ pcV = "done"
     /\ \E r \in 1..Len(model_results.value) : ~IsNaN(model_results.value[r].RMSE)) =>
        \E q \in 1..Len(model_results.value) :
            /\ model_results.value[q].model = best_model.value
            /\ \A r \in 1..Len(model_results.value) :
                  r # q => FLe(model_results.value[q].RMSE, model_results.value[r].RMSE)

\* C8: every cloud fraction computed by read_surfrad_h5 lies in [0, 1].
InUnitInterval(a) == IsFin(a) /\ 0 <= a.v /\ a.v <= SCALE

C8_CloudFractionInUnitInterval ==
    /\ \A f \in 1..Len(combined_data) :
          \A p \in 1..Len(combined_data[f].rows) :
              InUnitInterval(combined_data[f].rows[p]["Cloud_Fraction"])
    /\ pcR = "returned" =>
          \A p \in 1..Len(surfrad_data.rows) :
              InUnitInterval(surfrad_data.rows[p]["Cloud_Fraction"])

\* C9: at cloud fraction 0, for positive finite Ta and ea (where the
\* Brutsaert baseline LW_clear is defined), compute_cloudy_LW returns exactly
\* LW_clear for jacobs, maykut_church, suguita_brutsaert, konzelmann and
\* crawford_duchon, and exactly 1.03 * LW_clear, which is not LW_clear, for
\* lhomme.
DefinedBaseline(Ta, ea) == IsFin(Ta) /\ Ta.v > 0 /\ IsFin(ea) /\ ea.v > 0

C9_ZeroCloudBaseline ==
    (pcF = "done" /\ fn_in.fn = "compute_cloudy_LW" /\ Known(fn_in.model)
     /\ fn_in.c = Zero /\ DefinedBaseline(fn_in.Ta, fn_in.ea)) =>
        LET LW_clear == brutsaert_clear_sky(fn_in.Ta, fn_in.ea)
        IN  /\ fn_out.exc = "none"
            /\ IsFin(LW_clear)
            /\ fn_in.model # "lhomme" => fn_out.value = LW_clear
            /\ fn_in.model = "lhomme" =>
                   /\ fn_out.value = Fin((LW_clear.v * 103) \div 100)
                   /\ fn_out.value # LW_clear

C9_Witness ==
    /\ pcF = "done"
    /\ fn_in.fn = "compute_cloudy_LW"
    /\ fn_in.model = "lhomme"
    /\ fn_in.c = Zero
    /\ fn_in.Ta = F(300)
    /\ fn_in.ea = F(20)
    /\ fn_out.exc = "none"
    /\ fn_out.value.v > brutsaert_clear_sky(F(300), F(20)).v

\* C10: calculate_errors(x, x) = (0, 0, 0, 0) for every non-empty x without
\* NaN whose mean is not zero.
RECURSIVE Total(_)
Total(x) == IF x = <<>> THEN 0 ELSE Head(x).v + Total(Tail(x))

C10_IdentityLaw ==
    (pcF = "done" /\ fn_in.fn = "calculate_errors"
     /\ fn_in.actual = fn_in.predicted
     /\ fn_in.actual # <<>>
     /\ \A p \in 1..Len(fn_in.actual) : IsFin(fn_in.actual[p])
     /\ Total(fn_in.actual) # 0) =>
        fn_out = Returned(<<Zero, Zero, Zero, Zero>>)

C10_Witness ==
    /\ pcF = "done"
    /\ fn_in.fn = "calculate_errors"
    /\ fn_in.actual = <<Fin(1100), Fin(900)>>
    /\ fn_in.predicted = fn_in.actual
    /\ fn_out = Returned(<<Zero, Zero, Zero, Zero>>)
=============================================================================
